---- MODULE Spec2Model ----
(***************************************************************************)
(* gamv (src/sandbox/gamv.py): the wrapper that validates a variogram      *)
(* configuration, writes the GAMV parameter file, runs the external engine *)
(* and reshapes its output file into a table.                              *)
(*                                                                         *)
(* One invocation of gamv is a process that walks through the function's   *)
(* file-system visible steps; two invocations share one working directory  *)
(* (the variable fs).                                                      *)
(***************************************************************************)
EXTENDS Integers, Sequences, FiniteSets, TLC

\* ------------------------------------------------------------------ bounds
MaxVarg == 2
MaxDir == 2
MaxLag == 1

Procs == {"a", "b"}

\* ------------------------------------------------------------------ values
\* A cell of the cut column: Python None, an int, a float, or a float NaN.
None == [k |-> "none", v |-> 0]
NaN == [k |-> "nan", v |-> 0]
IntCut(n) == [k |-> "int", v |-> n]
FloatCut(n) == [k |-> "float", v |-> n]

IsNull(c) == c.k \in {"none", "nan"}
SameNumber(c1, c2) == c1.k \in {"int", "float"} /\ c2.k \in {"int", "float"} /\ c1.v = c2.v

\* the error an invocation ends with
NoErr == [kind |-> "none", at |-> "", prefix |-> "", text |-> <<>>, idx |-> -1]
Raise(kind, at, prefix, text, idx) ==
    [kind |-> kind, at |-> at, prefix |-> prefix, text |-> text, idx |-> idx]

\* ------------------------------------------------------------ file names
InFile == "_xxx_.in"
OutFileDefault == "_xxx_.out"
fpar == "_xxx_.par"
\* a variant in which every invocation has a parameter file of its own
ParFileName_own(p) == IF p = "a" THEN fpar ELSE "_xxx_b.par"
\* fpar ='_xxx_.par': the same name in every invocation
ParFileName(p) == fpar
FileNames ==
    {InFile, OutFileDefault, "data.dat", "out.dat"}
    \cup {ParFileName(p) : p \in Procs}
Absent == [kind |-> "absent"]

\* gslib_path is None: the platform default
ResolveGslibPath(gslib_path, osname) ==
    IF gslib_path = "None"
    THEN IF osname = "posix" THEN "~/gslib/gamv" ELSE "c:\\gslib\\gamv.exe"
    ELSE gslib_path

\* ------------------------------------------------------- numpy helpers
\* np.arange(start, stop, step) with step > 0
Arange(start, stop, step) ==
    IF stop <= start THEN <<>>
    ELSE [i \in 1..((stop - start + step - 1) \div step) |-> start + (i - 1) * step]

Elems(seq) == {seq[i] : i \in 1..Len(seq)}

\* range(n) as a sequence 0, 1, ..., n-1
Range(n) == [i \in 1..n |-> i - 1]

NCopies(x, n) == [i \in 1..n |-> x]

\* np.repeat(seq, n): every element n times, in order
RECURSIVE Repeat(_, _)
Repeat(seq, n) ==
    IF seq = <<>> THEN <<>> ELSE NCopies(Head(seq), n) \o Repeat(Tail(seq), n)

\* np.tile(seq, n): the whole sequence n times
RECURSIVE Tile(_, _)
Tile(seq, n) ==
    IF n = 0 THEN <<>> ELSE seq \o Tile(seq, n - 1)

\* np.array(mypar['ivpar']): one dtype for the whole array
NpArray(iv) ==
    LET dt == IF \E i \in 1..Len(iv) : iv[i].cut.k = "none" THEN "object"
              ELSE IF \E i \in 1..Len(iv) : iv[i].cut.k \in {"float", "nan"}
                   THEN "float64"
                   ELSE "int64"
        conv(c) == IF dt = "float64" /\ c.k = "int" THEN FloatCut(c.v) ELSE c
    IN [dtype |-> dt,
        rows |-> [i \in 1..Len(iv) |-> [iv[i] EXCEPT !.cut = conv(@)]]]

\* bytes.decode('utf-8') (strict): the code points, or failure
LeadLen(b) ==
    IF b < 128 THEN 1
    ELSE IF b >= 194 /\ b <= 223 THEN 2
    ELSE IF b >= 224 /\ b <= 239 THEN 3
    ELSE IF b >= 240 /\ b <= 244 THEN 4
    ELSE 0

ContinuationOK(b, n) ==
    /\ \A i \in 2..n : b[i] >= 128 /\ b[i] <= 191
    /\ (b[1] = 224 => b[2] >= 160)
    /\ (b[1] = 237 => b[2] <= 159)
    /\ (b[1] = 240 => b[2] >= 144)
    /\ (b[1] = 244 => b[2] <= 143)

CodePoint(b, n) ==
    IF n = 1 THEN b[1]
    ELSE IF n = 2 THEN (b[1] - 192) * 64 + (b[2] - 128)
    ELSE IF n = 3 THEN (b[1] - 224) * 4096 + (b[2] - 128) * 64 + (b[3] - 128)
    ELSE (b[1] - 240) * 262144 + (b[2] - 128) * 4096 + (b[3] - 128) * 64 + (b[4] - 128)

RECURSIVE Utf8Decode(_)
Utf8Decode(b) ==
    IF b = <<>> THEN [ok |-> TRUE, text |-> <<>>]
    ELSE LET n == LeadLen(b[1]) IN
         IF n = 0 \/ Len(b) < n THEN [ok |-> FALSE, text |-> <<>>]
         ELSE IF ~ContinuationOK(b, n) THEN [ok |-> FALSE, text |-> <<>>]
         ELSE LET rest == Utf8Decode(SubSeq(b, n + 1, Len(b))) IN
              IF rest.ok
              THEN [ok |-> TRUE, text |-> <<CodePoint(b, n)>> \o rest.text]
              ELSE rest

\* ------------------------------------------------ validation (129-144)
\* ivpar[i,3] = None on an array that holds Python objects or floats
SetCutNone(arr, i) ==
    [arr EXCEPT !.rows[i].cut = IF arr.dtype = "object" THEN None ELSE NaN]

\* the loop over the rows of ivpar, from row i (1-based here, i-1 in the code)
RECURSIVE CheckCuts(_, _)
CheckCuts(arr, i) ==
    IF i > Len(arr.rows) THEN [err |-> NoErr, arr |-> arr]
    ELSE IF arr.rows[i].type < 9
         THEN IF arr.dtype = "int64"
              THEN [err |-> Raise("TypeError", "validate",
                                  "int() argument must be a number, not 'NoneType'",
                                  <<>>, i - 1),
                    arr |-> arr]
              ELSE CheckCuts(SetCutNone(arr, i), i + 1)
         ELSE IF arr.rows[i].cut = None
              THEN [err |-> Raise("NameError", "validate",
                                  "gslib varmap Error inparameter file: cut[{}]=None",
                                  <<>>, i - 1),
                    arr |-> arr]
              ELSE CheckCuts(arr, i + 1)

ValidateIvpar(iv) == CheckCuts(NpArray(iv), 1)

\* ------------------------------------------------ files written by gamv
Name(base, n) == [base |-> base, n |-> n]

\* the text written to '_xxx_.in' for an in-memory table with ncols columns
ArrayFile(p, ncols) ==
    [kind |-> "data", by |-> p, title |-> "temp file ", ncols |-> ncols,
     names |-> <<Name("x", 0), Name("y", 0), Name("z", 0)>>
               \o [i \in 1..(ncols - 3) |-> Name("v", i)]]

\* __gamv_par.format(**mypar)
RenderPar(p, mp, arr) ==
    [kind |-> "par", by |-> p,
     datafl |-> mp.datafl, icol |-> mp.icol,
     nvar |-> Len(mp.ivar), ivar_ |-> mp.ivar,
     outfl |-> mp.outfl, nlag |-> mp.nlag,
     ndir |-> Len(mp.ivdir), ivdir_ |-> mp.ivdir,
     nvarg |-> Len(arr.rows), ivpar_ |-> arr]

\* ------------------------------------------------ the engine's output file
Patterns == 0..3
HeaderLine(v, d) ==
    [hdr |-> TRUE, blk |-> <<v, d>>, lag |-> -1, sep |-> 0, np |-> 0]
\* the k-th data line of the file; pat picks which lines are empty bins
\* (np = 0) and which are zero-distance bins (sep = 0)
DataLine(v, d, l, k, pat) ==
    [hdr |-> FALSE, blk |-> <<v, d>>, lag |-> l,
     sep |-> IF (k + pat) % 4 \in {0, 2} THEN 0 ELSE 1,
     np |-> IF (k + pat) % 4 \in {0, 1} THEN 0 ELSE 5]

\* for every variogram, for every direction: a header line and nlag+2 lags
EngineLines(nvarg, ndir, nlag, pat) ==
    [i \in 1..(nvarg * ndir * (nlag + 3)) |->
        LET b == (i - 1) \div (nlag + 3)
            r == (i - 1) % (nlag + 3)
        IN IF r = 0
           THEN HeaderLine(b \div ndir, b % ndir)
           ELSE DataLine(b \div ndir, b % ndir, r - 1, b * (nlag + 2) + r - 1, pat)]

EngineOutput(par, pat) ==
    [kind |-> "out", by |-> par.by,
     lines |-> EngineLines(par.nvarg, par.ndir, par.nlag, pat)]

ExitCodes == {0, 1}
\* stderr as captured: bytes ("", "err", "e-acute" in UTF-8, a lone 0xFF)
StderrSamples == {<<>>, <<101, 114, 114>>, <<195, 169>>, <<255>>}

\* ------------------------------------------------ parser (182-223)
Missing == "missing"
Val == "val"

\* a variant that steps by the block's data lines only
IgnoreRows_step(nvarg, ndir, nlag) ==
    Arange(0, nvarg * ndir * nlag + ndir * nvarg, nlag)
\* np.arange(0, nvarg*ndir*nlag + ndir*nvarg, nlag+1), nlag = mypar['nlag'] + 2
IgnoreRows(nvarg, ndir, nlag) ==
    Arange(0, nvarg * ndir * nlag + ndir * nvarg, nlag + 1)

\* read_csv(skiprows = ignore): the lines whose 0-based position is not listed
RECURSIVE SkipRows(_, _, _)
SkipRows(lines, ign, pos) ==
    IF lines = <<>> THEN <<>>
    ELSE (IF pos \in ign THEN <<>> ELSE <<Head(lines)>>)
         \o SkipRows(Tail(lines), ign, pos + 1)

\* a variant that tests for the covariance code
AnyVarianceType_cov(arr) == \E i \in 1..Len(arr.rows) : arr.rows[i].type = 3
\* any(ivpar[:,2]==4)
AnyVarianceType(arr) == \E i \in 1..Len(arr.rows) : arr.rows[i].type = 4

BaseNames == <<"Lag", "average separation", "var funct", "number of pairs",
               "mean on tail", "mean on head">>
VarianceNames == <<"variance tail", "variance head">>
ColumnNames(arr) ==
    IF AnyVarianceType(arr) THEN BaseNames \o VarianceNames ELSE BaseNames

\* np.repeat(range(nvarg), ndir*nlag)
VariogramColumn(nvarg, ndir, nlag) == Repeat(Range(nvarg), ndir * nlag)
\* a variant with the direction as the outer loop
DirectionColumn_outer(nvarg, ndir, nlag) == Repeat(Range(ndir), nvarg * nlag)
\* np.tile(np.repeat(range(ndir), nlag), nvarg)
DirectionColumn(nvarg, ndir, nlag) == Tile(Repeat(Range(ndir), nlag), nvarg)

\* one line of the file as a row of the frame, with the key and metadata
\* columns as lines 213-218 first set them
Row(line, vi, di) ==
    [hdr |-> line.hdr, blk |-> line.blk,
     lag |-> line.lag, sep |-> line.sep, gam |-> Val, np |-> line.np,
     tm |-> Val, hm |-> Val,
     Variogram |-> vi, Direction |-> di,
     tail |-> 0, head |-> 0, type |-> 0, cut |-> None]

\* lines 219-223: the metadata of parameters['ivpar'][i] on the rows of variogram i
WithMetadata(r, raw) ==
    IF r.Variogram + 1 \in 1..Len(raw)
    THEN [r EXCEPT !.tail = raw[r.Variogram + 1].tail,
                   !.head = raw[r.Variogram + 1].head,
                   !.type = raw[r.Variogram + 1].type,
                   !.cut = raw[r.Variogram + 1].cut]
    ELSE r

NoTable == [from |-> "none", columns |-> <<>>, rows |-> <<>>]

\* lines 182-223 on the content of the output file
ParseResult(content, mp, arr, raw) ==
    LET nvarg == mp.nvarg
        ndir == mp.ndir
        nlag == mp.nlag + 2
        ign == IgnoreRows(nvarg, ndir, nlag)
        vcol == VariogramColumn(nvarg, ndir, nlag)
        dcol == DirectionColumn(nvarg, ndir, nlag)
    IN IF content.kind = "absent"
       THEN [err |-> Raise("FileNotFoundError", "parse", "No such file", <<>>, -1),
             ignore |-> ign, vg |-> NoTable]
       ELSE IF content.kind # "out"
       THEN [err |-> Raise("ValueError", "parse", "not an engine output", <<>>, -1),
             ignore |-> ign, vg |-> NoTable]
       ELSE LET kept == SkipRows(content.lines, Elems(ign), 0) IN
            IF Len(kept) # Len(vcol)
            THEN [err |-> Raise("ValueError", "parse",
                                "Length of values does not match length of index",
                                <<>>, -1),
                  ignore |-> ign, vg |-> NoTable]
            ELSE [err |-> NoErr, ignore |-> ign,
                  vg |-> [from |-> content.by,
                          columns |-> ColumnNames(arr),
                          rows |-> [k \in 1..Len(kept) |->
                                      WithMetadata(Row(kept[k], vcol[k], dcol[k]), raw)]]]

\* ------------------------------------------------ cleanup (225-227)
\* a variant in which the second rule is an alternative of the first
CleanRow_either(r) ==
    IF r.sep = 0 THEN [r EXCEPT !.gam = Missing]
    ELSE IF r.np = 0
         THEN [r EXCEPT !.gam = Missing, !.tm = Missing, !.hm = Missing]
         ELSE r
CleanRow(r) ==
    LET r1 == IF r.np = 0
              THEN [r EXCEPT !.gam = Missing, !.tm = Missing, !.hm = Missing]
              ELSE r
    IN IF r1.sep = 0 THEN [r1 EXCEPT !.gam = Missing] ELSE r1

CleanupPass(rows) == [i \in 1..Len(rows) |-> CleanRow(rows[i])]

\* ------------------------------------------------ the callers' parameters
DataPath == [kind |-> "path", name |-> "data.dat", ncols |-> 0]
DataNone == [kind |-> "none", name |-> "", ncols |-> 0]
DataArray == [kind |-> "array", name |-> "", ncols |-> 5]
OutNone == [kind |-> "none", name |-> ""]
OutPath(n) == [kind |-> "path", name |-> n]

VSpec(t, h, ty, c) == [tail |-> t, head |-> h, type |-> ty, cut |-> c]
\* ivdir: n rows of azm, atol, bandh, dip, dtol, bandv
Directions(n) == [i \in 1..n |-> <<45 * (i - 1), 22, 10, 0, 22, 10>>]
\* every list of 1..n variogram specs drawn from S
IvparsOver(S, n) == UNION {[1..k -> S] : k \in 1..n}

ParamSet(datas, outs, lags, dirs, ivpars) ==
    [datafl : datas, outfl : outs, icol : {<<1, 2, 0>>}, ivar : {<<4, 5>>},
     nlag : lags, ivdir : {Directions(n) : n \in dirs}, ivpar : ivpars]

\* a process that calls nothing
NoParams ==
    [datafl |-> DataNone, outfl |-> OutNone, icol |-> <<>>, ivar |-> <<>>,
     nlag |-> -1, ivdir |-> <<>>, ivpar |-> <<>>]
NoMypar ==
    [datafl |-> "", outfl |-> "", icol |-> <<>>, ivar |-> <<>>,
     nlag |-> -1, ivdir |-> <<>>, ivpar |-> <<>>, nvarg |-> 0, ndir |-> 0]
NoArray == [dtype |-> "", rows |-> <<>>]
NoProc == [returncode |-> -1, stderr |-> <<>>, argv |-> <<>>, ranOn |-> Absent]

\* ------------------------------------------------------------------ state
VARIABLES
    pc,          \* where each invocation of gamv stands
    parameters,  \* the caller's dictionary
    mypar,       \* the deep copy gamv edits
    ivpar,       \* np.array(mypar['ivpar']) after the validation loop
    fs,          \* the working directory: file name -> content
    proc,        \* the finished engine process: argv, returncode, stderr
    ignore,      \* the rows read_csv was told to skip
    vg,          \* the frame
    err,         \* the exception the invocation ended with
    wrote        \* the files written during the invocation

vars == <<pc, parameters, mypar, ivpar, fs, proc, ignore, vg, err, wrote>>

InitWith(ps) ==
    /\ parameters = ps
    /\ pc = [p \in Procs |-> IF ps[p] = NoParams THEN "idle" ELSE "start"]
    /\ mypar = [p \in Procs |-> NoMypar]
    /\ ivpar = [p \in Procs |-> NoArray]
    /\ fs = [f \in FileNames |->
                IF f = "data.dat" THEN ArrayFile("caller", 5) ELSE Absent]
    /\ proc = [p \in Procs |-> NoProc]
    /\ ignore = [p \in Procs |-> <<>>]
    /\ vg = [p \in Procs |-> NoTable]
    /\ err = [p \in Procs |-> NoErr]
    /\ wrote = [p \in Procs |-> {}]

\* ---------------------------------------------------------------- actions
\* lines 102-127: the copy, the in-memory table written to '_xxx_.in', the
\* default names
Materialize(p) ==
    /\ pc[p] = "start"
    /\ LET prm == parameters[p]
           isArr == prm.datafl.kind = "array"
           mp == [datafl |-> IF isArr \/ prm.datafl.kind = "none"
                             THEN InFile ELSE prm.datafl.name,
                  icol |-> IF isArr THEN <<1, 2, 3>> ELSE prm.icol,
                  ivar |-> IF isArr THEN Arange(4, prm.datafl.ncols + 1, 1)
                           ELSE prm.ivar,
                  outfl |-> IF prm.outfl.kind = "none"
                            THEN OutFileDefault ELSE prm.outfl.name,
                  nlag |-> prm.nlag, ivdir |-> prm.ivdir, ivpar |-> prm.ivpar,
                  nvarg |-> 0, ndir |-> 0]
       IN /\ mypar' = [mypar EXCEPT ![p] = mp]
          /\ fs' = IF isArr
                   THEN [fs EXCEPT ![InFile] = ArrayFile(p, prm.datafl.ncols)]
                   ELSE fs
          /\ wrote' = IF isArr THEN [wrote EXCEPT ![p] = @ \cup {InFile}] ELSE wrote
    /\ pc' = [pc EXCEPT ![p] = "validate"]
    /\ UNCHANGED <<parameters, ivpar, proc, ignore, vg, err>>

\* lines 129-144. The assertions of lines 133-138 hold of every request
\* drawn here: four columns per spec, six per direction, tail and head within
\* len(ivar), types within 1..10.
Validate(p) ==
    /\ pc[p] = "validate"
    /\ LET res == ValidateIvpar(mypar[p].ivpar)
       IN /\ ivpar' = [ivpar EXCEPT ![p] = res.arr]
          /\ err' = [err EXCEPT ![p] = res.err]
          /\ pc' = [pc EXCEPT ![p] = IF res.err.kind = "none"
                                     THEN "serialize" ELSE "error"]
    /\ UNCHANGED <<parameters, mypar, fs, proc, ignore, vg, wrote>>

\* lines 147-161
WritePar(p) ==
    /\ pc[p] = "serialize"
    /\ mypar' = [mypar EXCEPT ![p].nvarg = Len(ivpar[p].rows),
                              ![p].ndir = Len(mypar[p].ivdir)]
    /\ fs' = [fs EXCEPT ![ParFileName(p)] = RenderPar(p, mypar[p], ivpar[p])]
    /\ wrote' = [wrote EXCEPT ![p] = @ \cup {ParFileName(p)}]
    /\ pc' = [pc EXCEPT ![p] = "invoke"]
    /\ UNCHANGED <<parameters, ivpar, proc, ignore, vg, err>>

\* lines 165-170: the engine runs on the file its argument names; it ends
\* with some exit status, and a successful run leaves the output file its
\* parameter file asks for. It can succeed only when the data file named in
\* the parameter file holds data.
RunEngine(p) ==
    /\ pc[p] = "invoke"
    /\ LET argv == <<ResolveGslibPath("None", "posix"), ParFileName(p)>>
           par == fs[argv[2]]
       IN \E rc \in ExitCodes, eb \in StderrSamples, pat \in Patterns :
            /\ rc = 0 => eb = <<>> /\ fs[par.datafl].kind = "data"
            /\ rc # 0 => pat = 0
            /\ fs' = IF rc = 0
                     THEN [fs EXCEPT ![par.outfl] = EngineOutput(par, pat)]
                     ELSE fs
            /\ wrote' = IF rc = 0
                        THEN [wrote EXCEPT ![p] = @ \cup {par.outfl}]
                        ELSE wrote
            /\ proc' = [proc EXCEPT ![p] = [returncode |-> rc, stderr |-> eb,
                                            argv |-> argv, ranOn |-> par]]
    /\ pc' = [pc EXCEPT ![p] = "check"]
    /\ UNCHANGED <<parameters, mypar, ivpar, ignore, vg, err>>

\* lines 172-173: NameError('gslib declus NameError' + stderr.decode('utf-8'))
ExitError(stderr) ==
    LET dec == Utf8Decode(stderr)
    IN IF dec.ok
       THEN Raise("NameError", "check", "gslib declus NameError", dec.text, -1)
       ELSE Raise("UnicodeDecodeError", "check",
                  "'utf-8' codec can't decode byte", <<>>, -1)

\* lines 172-179
CheckExit(p) ==
    /\ pc[p] = "check"
    /\ IF proc[p].returncode # 0
       THEN /\ err' = [err EXCEPT ![p] = ExitError(proc[p].stderr)]
            /\ pc' = [pc EXCEPT ![p] = "error"]
       ELSE /\ err' = err
            /\ pc' = [pc EXCEPT ![p] = "parse"]
    /\ UNCHANGED <<parameters, mypar, ivpar, fs, proc, ignore, vg, wrote>>

\* lines 182-223
Parse(p) ==
    /\ pc[p] = "parse"
    /\ LET res == ParseResult(fs[mypar[p].outfl], mypar[p], ivpar[p],
                              parameters[p].ivpar)
       IN /\ ignore' = [ignore EXCEPT ![p] = res.ignore]
          /\ vg' = [vg EXCEPT ![p] = res.vg]
          /\ err' = [err EXCEPT ![p] = res.err]
          /\ pc' = [pc EXCEPT ![p] = IF res.err.kind = "none"
                                     THEN "clean" ELSE "error"]
    /\ UNCHANGED <<parameters, mypar, ivpar, fs, proc, wrote>>

\* lines 225-238: the cleanup, and the frame returned
Cleanup(p) ==
    /\ pc[p] = "clean"
    /\ vg' = [vg EXCEPT ![p].rows = CleanupPass(@)]
    /\ pc' = [pc EXCEPT ![p] = "done"]
    /\ UNCHANGED <<parameters, mypar, ivpar, fs, proc, ignore, err, wrote>>

Next ==
    \E p \in Procs :
        \/ Materialize(p)
        \/ Validate(p)
        \/ WritePar(p)
        \/ RunEngine(p)
        \/ CheckExit(p)
        \/ Parse(p)
        \/ Cleanup(p)

\* ---------------------------------------------------------- specifications
\* one invocation; the shape of the request varies
VSpecsMain ==
    {VSpec(1, 1, 1, None), VSpec(1, 2, 3, None), VSpec(2, 1, 4, None),
     VSpec(2, 2, 9, IntCut(5))}
ParamsMain ==
    ParamSet({DataPath, DataArray}, {OutNone}, 0..MaxLag, 1..MaxDir,
             IvparsOver(VSpecsMain, MaxVarg))
Init ==
    \E c \in ParamsMain :
        InitWith([p \in Procs |-> IF p = "a" THEN c ELSE NoParams])
Spec == Init /\ [][Next]_vars

\* one invocation; the data source, the output path and the variogram
\* specs vary
VSpecsAll ==
    {VSpec(t, 1, ty, c) : t \in {1, 2}, ty \in 1..10,
                          c \in {None, IntCut(5), FloatCut(5)}}
ParamsCfg ==
    ParamSet({DataPath, DataNone, DataArray},
             {OutNone, OutPath("out.dat"), OutPath(InFile)},
             {0}, {1}, IvparsOver(VSpecsAll, MaxVarg))
InitCfg ==
    \E c \in ParamsCfg :
        InitWith([p \in Procs |-> IF p = "a" THEN c ELSE NoParams])
SpecCfg == InitCfg /\ [][Next]_vars

\* two invocations in one working directory
ParamsConc ==
    ParamSet({DataArray}, {OutNone}, {0}, {1},
             {<<VSpec(1, 1, 1, None)>>, <<VSpec(2, 2, 1, None)>>})
    \cup ParamSet({DataPath}, {OutNone}, {0}, {2}, {<<VSpec(1, 1, 1, None)>>})
InitConc ==
    \E ca \in ParamsConc, cb \in ParamsConc :
        InitWith([p \in Procs |-> IF p = "a" THEN ca ELSE cb])
SpecConc == InitConc /\ [][Next]_vars

\* ------------------------------------------------------------- properties
\* the counts of the request of p
NV(p) == Len(parameters[p].ivpar)
ND(p) == Len(parameters[p].ivdir)
NL(p) == parameters[p].nlag

Parsed(p) == pc[p] \in {"clean", "done"}
ParseFailed(p) == pc[p] = "error" /\ err[p].at = "parse"
ValidationFailed(p) == pc[p] = "error" /\ err[p].at = "validate"
EngineReturned(p) == proc[p].returncode # -1

\* a file of V*D blocks, each a header line and L+2 data lines
WellFormed(lines, V, D, L) ==
    /\ Len(lines) = V * D * (L + 3)
    /\ \A i \in 1..Len(lines) : lines[i].hdr <=> ((i - 1) % (L + 3) = 0)

HeaderPositions(V, D, L) == {j * (L + 3) : j \in 0..(V * D - 1)}

\* C1: on an output file of V*D blocks of one header line and L+2 data
\* lines, the parser skips exactly the positions j*(L+3), 0 <= j < V*D, which
\* are the header lines, skips no data line, and the parsed table has
\* V*D*(L+2) rows, before the cleanup and after.
C1_SkipsExactlyHeaders ==
    \A p \in Procs :
        (Parsed(p) \/ ParseFailed(p)) =>
            LET F == fs[mypar[p].outfl] IN
            (F.kind = "out" /\ WellFormed(F.lines, NV(p), ND(p), NL(p))) =>
                /\ Parsed(p)
                /\ Elems(ignore[p]) = HeaderPositions(NV(p), ND(p), NL(p))
                /\ \A i \in 1..Len(F.lines) :
                       (i - 1) \in Elems(ignore[p]) <=> F.lines[i].hdr
                /\ Len(vg[p].rows) = NV(p) * ND(p) * (NL(p) + 2)
                /\ \A k \in 1..Len(vg[p].rows) : ~vg[p].rows[k].hdr

C1_Witness ==
    \E p \in Procs :
        /\ pc[p] = "clean"
        /\ NV(p) = 2 /\ ND(p) = 2 /\ NL(p) = 1
        /\ Len(fs[mypar[p].outfl].lines) = 16
        /\ Elems(ignore[p]) = {0, 4, 8, 12}
        /\ Len(vg[p].rows) = 12

\* C2: row k (0-based) of the parsed table has variogram index
\* k div (D*(L+2)) and direction index (k div (L+2)) mod D, and these are the
\* variogram and the direction of the block the engine wrote the line in.
C2_KeysFollowNesting ==
    \A p \in Procs :
        Parsed(p) =>
            \A k \in 1..Len(vg[p].rows) :
                LET r == vg[p].rows[k] IN
                /\ r.Variogram = (k - 1) \div (ND(p) * (NL(p) + 2))
                /\ r.Direction = ((k - 1) \div (NL(p) + 2)) % ND(p)
                /\ (vg[p].from = p => r.blk = <<r.Variogram, r.Direction>>)

C2_Witness ==
    \E p \in Procs :
        /\ pc[p] = "done"
        /\ NV(p) = 2 /\ ND(p) = 2
        /\ \E k \in 1..Len(vg[p].rows) :
               /\ vg[p].rows[k].Variogram = 1
               /\ vg[p].rows[k].Direction = 0
               /\ vg[p].rows[k].blk = <<1, 0>>

\* C3: a variogram spec of type 9 or 10 with a null cutoff makes validation
\* fail; when no spec of type 9 or 10 lacks its cutoff, validation succeeds
\* whatever the cutoffs of the other specs, and the stored cutoff of every
\* spec of type 1..8 is null.
C3_CutoffRule ==
    \A p \in Procs :
        pc[p] \notin {"idle", "start", "validate"} =>
            LET raw == parameters[p].ivpar IN
            /\ (\E i \in 1..Len(raw) : raw[i].type \in {9, 10} /\ raw[i].cut = None)
                   => ValidationFailed(p)
            /\ (\A i \in 1..Len(raw) : raw[i].type \in {9, 10} => raw[i].cut # None)
                   => /\ ~ValidationFailed(p)
                      /\ \A i \in 1..Len(raw) :
                             raw[i].type \notin {9, 10} => IsNull(ivpar[p].rows[i].cut)

HasVarianceColumns(cols) ==
    /\ \E i \in 1..Len(cols) : cols[i] = "variance tail"
    /\ \E i \in 1..Len(cols) : cols[i] = "variance head"

\* C4 as stated: the table has the two variance columns if and only if a
\* requested variogram has type 3 (covariance).
C4_VarianceColumnsIffCovariance ==
    \A p \in Procs :
        Parsed(p) =>
            (HasVarianceColumns(vg[p].columns)
                <=> \E i \in 1..NV(p) : parameters[p].ivpar[i].type = 3)

\* C4 as amended: the table has the two variance columns, for every row, if
\* and only if a requested variogram has type 4 (correlogram); the decision
\* rests on the requested types alone.
C4_VarianceColumnsIffCorrelogram ==
    \A p \in Procs :
        Parsed(p) =>
            (HasVarianceColumns(vg[p].columns)
                <=> \E i \in 1..NV(p) : parameters[p].ivpar[i].type = 4)

C4_Witness ==
    \E p \in Procs :
        /\ pc[p] = "done"
        /\ HasVarianceColumns(vg[p].columns)
        /\ \E i \in 1..NV(p) : parameters[p].ivpar[i].type = 4
        /\ \E k \in 1..Len(vg[p].rows) : vg[p].rows[k].type # 4

\* C5: an invocation whose request has a spec of type 9 with a null cutoff
\* writes no file: not the temporary input file, not the parameter file, not
\* the output file.
C5_NoWriteBeforeConfigError ==
    \A p \in Procs :
        (\E i \in 1..NV(p) : /\ parameters[p].ivpar[i].type = 9
                             /\ parameters[p].ivpar[i].cut = None)
            => wrote[p] = {}

\* C6: the engine is started after the parameter file is written, with its
\* path as the sole argument; when it ends with a non-zero exit status the
\* invocation fails with the engine-failure error whose message carries the
\* captured standard-error text, and reads no output file and returns no table.
C6_EngineFailureCarriesStderr ==
    \A p \in Procs :
        EngineReturned(p) =>
            /\ proc[p].argv = <<ResolveGslibPath("None", "posix"), ParFileName(p)>>
            /\ ParFileName(p) \in wrote[p]
            /\ (proc[p].returncode # 0 /\ pc[p] # "check") =>
                   /\ pc[p] = "error"
                   /\ err[p].kind = "NameError"
                   /\ err[p].at = "check"
                   /\ Utf8Decode(proc[p].stderr).ok
                   /\ err[p].text = Utf8Decode(proc[p].stderr).text
                   /\ ignore[p] = <<>>
                   /\ vg[p] = NoTable

\* C7: in the returned table every row with pair count 0 has its variogram
\* value and both means missing, every row with average separation 0 has its
\* variogram value missing, and the cleanup pass applied again changes nothing.
C7_CleanupRules ==
    \A p \in Procs :
        pc[p] = "done" =>
            /\ \A k \in 1..Len(vg[p].rows) :
                   LET r == vg[p].rows[k] IN
                   /\ (r.np = 0 =>
                          r.gam = Missing /\ r.tm = Missing /\ r.hm = Missing)
                   /\ (r.sep = 0 => r.gam = Missing)
            /\ CleanupPass(vg[p].rows) = vg[p].rows

C7_Witness ==
    \E p \in Procs :
        /\ pc[p] = "done"
        /\ \E k \in 1..Len(vg[p].rows) :
               LET r == vg[p].rows[k] IN
               r.np = 0 /\ r.sep = 0 /\ r.gam = Missing /\ r.tm = Missing
        /\ \E k \in 1..Len(vg[p].rows) :
               LET r == vg[p].rows[k] IN
               r.np = 0 /\ r.sep # 0 /\ r.gam = Missing /\ r.hm = Missing
        /\ \E k \in 1..Len(vg[p].rows) :
               LET r == vg[p].rows[k] IN
               r.np # 0 /\ r.sep = 0 /\ r.gam = Missing /\ r.tm = Val

\* C8: every row of the returned table carries the tail, head, type and
\* cutoff of the validated spec at its variogram index; the cutoff of a row
\* of a variogram of type 1..8 is null.
C8_RowsCarryValidatedSpec ==
    \A p \in Procs :
        pc[p] = "done" =>
            \A k \in 1..Len(vg[p].rows) :
                LET r == vg[p].rows[k]
                    s == ivpar[p].rows[r.Variogram + 1]
                IN /\ r.tail = s.tail
                   /\ r.head = s.head
                   /\ r.type = s.type
                   /\ (s.type < 9 => IsNull(r.cut))
                   /\ (s.type >= 9 => SameNumber(r.cut, s.cut))

\* C9: with an in-memory table as the data source, the file it is written to
\* and the output file are distinct files, and a successful engine run leaves
\* the input file in place.
C9_InputNeverTheOutput ==
    \A p \in Procs :
        (parameters[p].datafl.kind = "array" /\ EngineReturned(p)
         /\ proc[p].returncode = 0) =>
            /\ mypar[p].datafl # mypar[p].outfl
            /\ fs[mypar[p].datafl].kind = "data"

\* C10: two invocations are not isolated. While both stand between writing
\* the parameter file and starting the engine there is one parameter file,
\* the one written last, and both engines will be started on it; and an
\* engine that ran on the other invocation's parameters did so because the
\* other invocation had written the parameter file.
C10_OneParameterFile ==
    \A p \in Procs : \A q \in Procs \ {p} :
        /\ (pc[p] = "invoke" /\ pc[q] = "invoke") =>
               /\ fs[ParFileName(p)] = fs[ParFileName(q)]
               /\ fs[ParFileName(p)].by \in {p, q}
        /\ (EngineReturned(p) /\ proc[p].ranOn.by # p) =>
               /\ proc[p].ranOn.by = q
               /\ ParFileName(p) \in wrote[q]

\* an invocation returns a table the engine computed from the other
\* invocation's request, which differs from its own
C10_Witness ==
    \E p \in Procs : \E q \in Procs \ {p} :
        /\ pc[p] = "done"
        /\ vg[p].from = q
        /\ parameters[p] # parameters[q]
        /\ parameters[p].ivpar[1].tail # parameters[q].ivpar[1].tail

====
